---- MODULE Spec2Model ----
(***************************************************************************)
(* Model of the three Azure text-to-speech HTTP services                   *)
(*   azure_tts_rest.py        (provider reached through requests.post)     *)
(*   azure_tts_server.py      (provider reached through the Speech SDK)    *)
(*   azure_tts_standalone.py  (Speech SDK, .env file loaded at start)      *)
(* Each service has three handlers: POST /synthesize, GET /voices and      *)
(* GET /health.  A request occupies a slot from its arrival until its      *)
(* response is delivered.  /synthesize blocks in the outbound provider     *)
(* call, so its handler is two steps: up to the call, and from the         *)
(* provider's reply to the response.  The handlers of different slots are  *)
(* interleaved freely, which covers the event loop's serial order as well  *)
(* as a thread-per-request host.                                           *)
(*                                                                         *)
(* Strings that the properties look into (messages) are sequences of       *)
(* words; bytes are integers 0..255; base64 text is a sequence of          *)
(* one-character strings.                                                  *)
(***************************************************************************)
EXTENDS Integers, Sequences, FiniteSets, TLC

VARIABLES environ, pc, req, local, outbound, reply, resp

vars == <<environ, pc, req, local, outbound, reply, resp>>

(***************************************************************************)
(* Bounds                                                                  *)
(***************************************************************************)
\* request slots that can be in flight at once
MaxRequests == 2
\* longest audio the provider returns
MaxAudioLen == 3

Requests == 1..MaxRequests

(***************************************************************************)
(* Values                                                                  *)
(***************************************************************************)
\* Python's None (an unset environment variable, an absent JSON field)
None == "<None>"

Variants == {"rest", "server", "standalone"}
Endpoints == {"/synthesize", "/voices", "/health"}

KeyValues == {None, "", "key-1"}
RegionValues == {None, "westeurope", "northeurope"}

\* byte values the provider's audio is drawn from
AudioBytes == {0, 1, 255}

RECURSIVE SeqsUpTo(_, _)
SeqsUpTo(S, n) ==
    IF n = 0 THEN {<<>>}
    ELSE LET shorter == SeqsUpTo(S, n - 1)
         IN shorter \cup {Append(s, b) : s \in {t \in shorter : Len(t) = n - 1}, b \in S}

Audio == SeqsUpTo(AudioBytes, MaxAudioLen)
\* the audio used when several requests are in flight
FewAudio == {<<>>, <<0, 1>>}

\* JSON bodies of POST /synthesize: text is required, the rest optional
Bodies ==
    { [text |-> "Labas", voice |-> None, rate |-> None, pitch |-> None],
      [text |-> "Labas", voice |-> "lt-LT-OnaNeural", rate |-> "+10%", pitch |-> None] }
\* GET requests carry no body
NoBody == [text |-> None, voice |-> None, rate |-> None, pitch |-> None]

(***************************************************************************)
(* Helpers shared by the three services                                    *)
(***************************************************************************)
\* a test for None alone, which lets the empty string through
IsNotNone(v) == v # None

\* bool(speech_key) / not speech_key: None and "" are false
Truthy(v) == v # None /\ v # ""

\* os.getenv(name) with the default left out
getenv_no_default(name, default) == environ[name]

\* os.getenv(name, default)
getenv(name, default) == IF environ[name] = None THEN default ELSE environ[name]

\* pydantic model TTSRequest: absent fields take the declared defaults
TTSRequest(json) ==
    [ text  |-> json.text,
      voice |-> IF json.voice = None THEN "lt-LT-LeonasNeural" ELSE json.voice,
      rate  |-> IF json.rate = None THEN "0%" ELSE json.rate,
      pitch |-> IF json.pitch = None THEN "0%" ELSE json.pitch ]

\* the SSML f-string
ssml(request) ==
    << "<speak version='1.0' xml:lang='lt-LT'>",
       "<voice name='", request.voice, "'>",
       "<prosody rate='", request.rate, "' pitch='", request.pitch, "'>",
       request.text,
       "</prosody>", "</voice>", "</speak>" >>

(***************************************************************************)
(* base64.b64encode(...).decode('utf-8')                                   *)
(***************************************************************************)
Alphabet ==
    << "A","B","C","D","E","F","G","H","I","J","K","L","M","N","O","P",
       "Q","R","S","T","U","V","W","X","Y","Z","a","b","c","d","e","f",
       "g","h","i","j","k","l","m","n","o","p","q","r","s","t","u","v",
       "w","x","y","z","0","1","2","3","4","5","6","7","8","9","+","/" >>

Sextet(n) == Alphabet[n + 1]

\* three bytes give four characters
RECURSIVE b64quads(_)
b64quads(B) ==
    IF Len(B) < 3 THEN <<>>
    ELSE << Sextet(B[1] \div 4),
            Sextet((B[1] % 4) * 16 + B[2] \div 16),
            Sextet((B[2] % 16) * 4 + B[3] \div 64),
            Sextet(B[3] % 64) >> \o b64quads(SubSeq(B, 4, Len(B)))

\* the last group is filled with zero bytes, and the characters that hold
\* only filling are replaced by "="
b64encode_unpadded(B) ==
    LET fill == (3 - (Len(B) % 3)) % 3
        quads == b64quads(B \o [i \in 1..fill |-> 0])
    IN SubSeq(quads, 1, Len(quads) - fill)

b64encode(B) ==
    LET fill == (3 - (Len(B) % 3)) % 3
        quads == b64quads(B \o [i \in 1..fill |-> 0])
    IN SubSeq(quads, 1, Len(quads) - fill) \o [i \in 1..fill |-> "="]

(***************************************************************************)
(* FastAPI's rendering of what a handler returns or raises                 *)
(***************************************************************************)
\* a returned dict: 200 with the dict as JSON
JSONResponse(content) == [status_code |-> 200, body |-> [kind |-> "json", json |-> content]]

\* a handler that falls off its end returns None: 200 with the JSON null
NullResponse == [status_code |-> 200, body |-> [kind |-> "null"]]

\* raise HTTPException(status_code, detail): {"detail": detail} with that status
HTTPException(status_code, detail) ==
    [status_code |-> status_code, body |-> [kind |-> "detail", detail |-> detail]]

\* slot contents before the request has them
NoRequest == [variant |-> None, endpoint |-> None, json |-> NoBody, request |-> NoBody]
NoLocal == [speech_key |-> None, service_region |-> None]
NoReply == [kind |-> None]
NoResponse == [status_code |-> 0, body |-> [kind |-> None]]

(***************************************************************************)
(* Initial state: no request in flight, any environment                    *)
(***************************************************************************)
Init ==
    /\ environ \in [AZURE_SPEECH_KEY : KeyValues, AZURE_SPEECH_REGION : RegionValues]
    /\ pc = [r \in Requests |-> "idle"]
    /\ req = [r \in Requests |-> NoRequest]
    /\ local = [r \in Requests |-> NoLocal]
    /\ outbound = [r \in Requests |-> <<>>]
    /\ reply = [r \in Requests |-> NoReply]
    /\ resp = [r \in Requests |-> NoResponse]

\* the environment is set outside the handlers, which read it per request
SetEnv(name, value) ==
    /\ environ[name] # value
    /\ environ' = [environ EXCEPT ![name] = value]
    /\ UNCHANGED <<pc, req, local, outbound, reply, resp>>

\* a request arrives at one of the services; a POST body is parsed
Receive(r, variant, endpoint, json) ==
    /\ pc[r] = "idle"
    /\ req' = [req EXCEPT ![r] =
                 [variant |-> variant, endpoint |-> endpoint, json |-> json,
                  request |-> IF endpoint = "/synthesize" THEN TTSRequest(json) ELSE NoBody]]
    /\ pc' = [pc EXCEPT ![r] = "received"]
    /\ UNCHANGED <<environ, local, outbound, reply, resp>>

\* the response has been sent; the slot is free again
Deliver(r) ==
    /\ pc[r] = "done"
    /\ pc' = [pc EXCEPT ![r] = "idle"]
    /\ req' = [req EXCEPT ![r] = NoRequest]
    /\ local' = [local EXCEPT ![r] = NoLocal]
    /\ outbound' = [outbound EXCEPT ![r] = <<>>]
    /\ reply' = [reply EXCEPT ![r] = NoReply]
    /\ resp' = [resp EXCEPT ![r] = NoResponse]
    /\ UNCHANGED environ

(***************************************************************************)
(* What the provider can answer to an outbound call                        *)
(***************************************************************************)
\* str(e) of an exception, response.text of a refusal
RequestExceptionMessage == <<"Connection", "timed", "out">>
ExceptionMessage == <<"boom">>
RefusalText == <<"Unauthorized">>

\* requests.post: a response with any status, or an exception
RestStatuses == {200, 202, 401, 503}
RestReplies(A) ==
    {[kind |-> "response", status_code |-> 200, content |-> B, text |-> <<>>] : B \in A}
    \cup {[kind |-> "response", status_code |-> s, content |-> <<>>, text |-> RefusalText]
            : s \in RestStatuses \ {200}}
    \cup {[kind |-> "RequestException", message |-> RequestExceptionMessage],
          [kind |-> "Exception", message |-> ExceptionMessage]}

\* speak_ssml_async(ssml).get(): a result with a reason, or an exception;
\* only a canceled result has cancellation details
NoCancellation == [reason |-> None, error_code |-> None, error_details |-> <<>>]
Cancellations ==
    { [reason |-> "CancellationReason.Error", error_code |-> "AuthenticationFailure",
       error_details |-> <<"401", "Unauthorized">>],
      [reason |-> "CancellationReason.Error", error_code |-> "AuthenticationFailure",
       error_details |-> <<>>],
      [reason |-> "CancellationReason.Error", error_code |-> "ConnectionFailure",
       error_details |-> <<"Connection", "failed">>] }
SdkReplies(A) ==
    {[kind |-> "result", reason |-> "SynthesizingAudioCompleted", audio_data |-> B,
      cancellation_details |-> NoCancellation] : B \in A}
    \cup {[kind |-> "result", reason |-> "Canceled", audio_data |-> <<>>,
           cancellation_details |-> c] : c \in Cancellations}
    \cup {[kind |-> "result", reason |-> "SynthesizingAudioStarted", audio_data |-> <<>>,
           cancellation_details |-> NoCancellation],
          [kind |-> "Exception", message |-> ExceptionMessage]}

Replies(variant, A) == IF variant = "rest" THEN RestReplies(A) ELSE SdkReplies(A)

(***************************************************************************)
(* azure_tts_rest.py                                                       *)
(***************************************************************************)
rest_not_configured == HTTPException(500, <<"AZURE_SPEECH_KEY", "not", "configured">>)

rest_post(speech_key, service_region, request) ==
    [ api      |-> "requests.post",
      endpoint |-> <<"https://", service_region, ".tts.speech.microsoft.com/cognitiveservices/v1">>,
      key      |-> speech_key,
      data     |-> ssml(request),
      timeout  |-> 30 ]

\* from the return of requests.post to the end of the handler
rest_respond(request, rep) ==
    IF rep.kind = "RequestException" THEN
        HTTPException(500, <<"Network", "error", ":">> \o rep.message)
    ELSE IF rep.kind = "Exception" THEN
        HTTPException(500, <<"Error", ":">> \o rep.message)
    ELSE IF rep.status_code = 200 THEN
        JSONResponse([ success      |-> TRUE,
                       audio_base64 |-> b64encode(rep.content),
                       format       |-> "mp3",
                       sample_rate  |-> 16000,
                       voice        |-> request.voice ])
    ELSE
        HTTPException(rep.status_code,
                      <<"Azure", "API", "error", ToString(rep.status_code), ":">> \o rep.text)

\* the two voices in the other order
rest_voices_reversed ==
    << [name |-> "lt-LT-OnaNeural", gender |-> "Female", language |-> "Lithuanian",
        description |-> "Natural-sounding female Lithuanian voice"],
       [name |-> "lt-LT-LeonasNeural", gender |-> "Male", language |-> "Lithuanian",
        description |-> "Natural-sounding male Lithuanian voice"] >>

rest_voices ==
    << [name |-> "lt-LT-LeonasNeural", gender |-> "Male", language |-> "Lithuanian",
        description |-> "Natural-sounding male Lithuanian voice"],
       [name |-> "lt-LT-OnaNeural", gender |-> "Female", language |-> "Lithuanian",
        description |-> "Natural-sounding female Lithuanian voice"] >>

\* the flag computed as "speech_key is not None"
rest_health_is_not_none(speech_key) ==
    [status |-> "healthy", azure_configured |-> speech_key # None,
     method |-> "REST API (no SDK)"]

rest_health(speech_key) ==
    [status |-> "healthy", azure_configured |-> Truthy(speech_key),
     method |-> "REST API (no SDK)"]

(***************************************************************************)
(* azure_tts_server.py                                                     *)
(***************************************************************************)
server_not_configured ==
    HTTPException(500, <<"Azure", "Speech", "Key", "not", "configured", ".",
                         "Please", "set", "AZURE_SPEECH_KEY", "in", ".env", "file">>)

sdk_speak(speech_key, service_region, request) ==
    [ api          |-> "speak_ssml_async",
      subscription |-> speech_key,
      region       |-> service_region,
      ssml         |-> ssml(request) ]

\* from the result of speak_ssml_async to the end of the handler
server_respond(request, rep) ==
    IF rep.kind = "Exception" THEN
        HTTPException(500, <<"TTS", "error", ":">> \o rep.message)
    ELSE IF rep.reason = "SynthesizingAudioCompleted" THEN
        JSONResponse([ success      |-> TRUE,
                       audio_base64 |-> b64encode(rep.audio_data),
                       format       |-> "mp3",
                       sample_rate  |-> 16000,
                       voice        |-> request.voice ])
    ELSE IF rep.reason = "Canceled" THEN
        LET cancellation == rep.cancellation_details
        IN HTTPException(500,
               <<"Speech", "synthesis", "canceled", ":", cancellation.reason>>
               \o (IF cancellation.error_details # <<>>
                   THEN <<"-", "Details", ":">> \o cancellation.error_details
                   ELSE <<>>))
    ELSE
        \* neither branch of the if/elif is taken
        NullResponse

server_voices ==
    << [name |-> "lt-LT-LeonasNeural", gender |-> "Male", language |-> "Lithuanian",
        description |-> "Natural-sounding male Lithuanian voice"],
       [name |-> "lt-LT-OnaNeural", gender |-> "Female", language |-> "Lithuanian",
        description |-> "Natural-sounding female Lithuanian voice"] >>

server_health(speech_key) ==
    [status |-> "healthy", azure_configured |-> Truthy(speech_key)]

(***************************************************************************)
(* azure_tts_standalone.py                                                 *)
(***************************************************************************)
\* the missing key reported as a client error
standalone_not_configured_400 ==
    HTTPException(400, <<"AZURE_SPEECH_KEY", "not", "set", ".", "Set", "it", "with", ":",
                         "$env:AZURE_SPEECH_KEY='your-key'">>)

standalone_not_configured ==
    HTTPException(500, <<"AZURE_SPEECH_KEY", "not", "set", ".", "Set", "it", "with", ":",
                         "$env:AZURE_SPEECH_KEY='your-key'">>)

\* from the result of speak_ssml_async to the end of the handler
standalone_respond(request, rep) ==
    IF rep.kind = "Exception" THEN
        HTTPException(500, <<"TTS", "error", ":">> \o rep.message)
    ELSE IF rep.reason = "SynthesizingAudioCompleted" THEN
        JSONResponse([ success      |-> TRUE,
                       audio_base64 |-> b64encode(rep.audio_data),
                       format       |-> "mp3",
                       sample_rate  |-> 16000,
                       voice        |-> request.voice ])
    ELSE
        LET cancellation == rep.cancellation_details
        IN IF cancellation = NoCancellation THEN
               \* cancellation.reason on None raises, caught by except Exception
               HTTPException(500, <<"TTS", "error", ":", "'NoneType'", "object", "has",
                                    "no", "attribute", "'reason'">>)
           ELSE
               HTTPException(500,
                   <<"Speech", "synthesis", "canceled", ":", cancellation.reason>>
                   \o (IF cancellation.error_details # <<>>
                       THEN <<"-">> \o cancellation.error_details
                       ELSE <<>>))

standalone_voices ==
    << [name |-> "lt-LT-LeonasNeural", gender |-> "Male", language |-> "Lithuanian"],
       [name |-> "lt-LT-OnaNeural", gender |-> "Female", language |-> "Lithuanian"] >>

standalone_health(speech_key) ==
    [status |-> "healthy", azure_configured |-> Truthy(speech_key)]

(***************************************************************************)
(* The handlers, by service                                                *)
(***************************************************************************)
not_configured(variant) ==
    IF variant = "rest" THEN rest_not_configured
    ELSE IF variant = "server" THEN server_not_configured
    ELSE standalone_not_configured

outbound_call(variant, speech_key, service_region, request) ==
    IF variant = "rest" THEN rest_post(speech_key, service_region, request)
    ELSE sdk_speak(speech_key, service_region, request)

respond(variant, request, rep) ==
    IF variant = "rest" THEN rest_respond(request, rep)
    ELSE IF variant = "server" THEN server_respond(request, rep)
    ELSE standalone_respond(request, rep)

voices(variant) ==
    IF variant = "rest" THEN rest_voices
    ELSE IF variant = "server" THEN server_voices
    ELSE standalone_voices

health(variant, speech_key) ==
    IF variant = "rest" THEN rest_health(speech_key)
    ELSE IF variant = "server" THEN server_health(speech_key)
    ELSE standalone_health(speech_key)

\* POST /synthesize up to the outbound call: read the environment, refuse
\* without a key, otherwise build the SSML and call the provider
synthesize_speech(r) ==
    /\ pc[r] = "received"
    /\ req[r].endpoint = "/synthesize"
    /\ LET speech_key == environ["AZURE_SPEECH_KEY"]
           service_region == getenv("AZURE_SPEECH_REGION", "westeurope")
       IN /\ local' = [local EXCEPT ![r] = [speech_key |-> speech_key,
                                            service_region |-> service_region]]
          /\ IF ~Truthy(speech_key)
             THEN /\ resp' = [resp EXCEPT ![r] = not_configured(req[r].variant)]
                  /\ pc' = [pc EXCEPT ![r] = "done"]
                  /\ UNCHANGED outbound
             ELSE /\ outbound' = [outbound EXCEPT ![r] =
                                    Append(@, outbound_call(req[r].variant, speech_key,
                                                            service_region, req[r].request))]
                  /\ pc' = [pc EXCEPT ![r] = "calling"]
                  /\ UNCHANGED resp
    /\ UNCHANGED <<environ, req, reply>>

\* the reply kept in one place shared by every request
synthesize_speech_return_shared(r, rep) ==
    /\ pc[r] = "calling"
    /\ rep \in Replies(req[r].variant, Audio)
    /\ reply' = [q \in Requests |-> rep]
    /\ resp' = [resp EXCEPT ![r] = respond(req[r].variant, req[r].request, rep)]
    /\ pc' = [pc EXCEPT ![r] = "done"]
    /\ UNCHANGED <<environ, req, local, outbound>>

\* POST /synthesize from the provider's reply to the response
synthesize_speech_return(r, rep) ==
    /\ pc[r] = "calling"
    /\ rep \in Replies(req[r].variant, Audio)
    /\ reply' = [reply EXCEPT ![r] = rep]
    /\ resp' = [resp EXCEPT ![r] = respond(req[r].variant, req[r].request, rep)]
    /\ pc' = [pc EXCEPT ![r] = "done"]
    /\ UNCHANGED <<environ, req, local, outbound>>

\* GET /voices
get_available_voices(r) ==
    /\ pc[r] = "received"
    /\ req[r].endpoint = "/voices"
    /\ resp' = [resp EXCEPT ![r] = JSONResponse([voices |-> voices(req[r].variant)])]
    /\ pc' = [pc EXCEPT ![r] = "done"]
    /\ UNCHANGED <<environ, req, local, outbound, reply>>

\* GET /health
health_check(r) ==
    /\ pc[r] = "received"
    /\ req[r].endpoint = "/health"
    /\ LET speech_key == environ["AZURE_SPEECH_KEY"]
       IN /\ local' = [local EXCEPT ![r] = [speech_key |-> speech_key,
                                            service_region |-> None]]
          /\ resp' = [resp EXCEPT ![r] = JSONResponse(health(req[r].variant, speech_key))]
    /\ pc' = [pc EXCEPT ![r] = "done"]
    /\ UNCHANGED <<environ, req, outbound, reply>>

(***************************************************************************)
(* Spec: one request at a time, every environment, body and reply          *)
(***************************************************************************)
Next ==
    \/ \E value \in KeyValues : SetEnv("AZURE_SPEECH_KEY", value)
    \/ \E value \in RegionValues : SetEnv("AZURE_SPEECH_REGION", value)
    \/ \E variant \in Variants, json \in Bodies : Receive(1, variant, "/synthesize", json)
    \/ \E variant \in Variants, endpoint \in {"/voices", "/health"} :
            Receive(1, variant, endpoint, NoBody)
    \/ synthesize_speech(1)
    \/ \E rep \in RestReplies(Audio) \cup SdkReplies(Audio) : synthesize_speech_return(1, rep)
    \/ get_available_voices(1)
    \/ health_check(1)
    \/ Deliver(1)

Spec == Init /\ [][Next]_vars

(***************************************************************************)
(* SpecConcurrent: several requests in flight at once, their handlers      *)
(* interleaved with each other and with changes of the credential; the     *)
(* region stays unset and the inputs are few                               *)
(***************************************************************************)
DefaultBody == [text |-> "Labas", voice |-> None, rate |-> None, pitch |-> None]

InitConcurrent ==
    /\ Init
    /\ environ["AZURE_SPEECH_KEY"] \in {None, "key-1"}
    /\ environ["AZURE_SPEECH_REGION"] = None

NextConcurrent ==
    \/ \E value \in {None, "key-1"} : SetEnv("AZURE_SPEECH_KEY", value)
    \/ \E r \in Requests, variant \in Variants :
            Receive(r, variant, "/synthesize", DefaultBody)
    \/ \E r \in Requests, variant \in Variants, endpoint \in {"/voices", "/health"} :
            Receive(r, variant, endpoint, NoBody)
    \/ \E r \in Requests : synthesize_speech(r)
    \/ \E r \in Requests, rep \in RestReplies(FewAudio) \cup SdkReplies(FewAudio) :
            synthesize_speech_return(r, rep)
    \/ \E r \in Requests : get_available_voices(r)
    \/ \E r \in Requests : health_check(r)
    \/ \E r \in Requests : Deliver(r)

SpecConcurrent == InitConcurrent /\ [][NextConcurrent]_vars

(***************************************************************************)
(* Vocabulary of the properties                                            *)
(***************************************************************************)
\* a non-empty credential is configured at this moment
CredentialConfigured ==
    environ["AZURE_SPEECH_KEY"] \notin {None, ""}

IsSynthesize(r) == req[r].endpoint = "/synthesize"

\* the handler of slot r takes its first step
Begins(r) == pc[r] = "received" /\ pc'[r] # "received"

\* an error response of FastAPI: {"detail": message} with a message
IsErrorEnvelope(response) ==
    /\ response.body.kind = "detail"
    /\ response.body.detail # <<>>

IsSuccessEnvelope(response) ==
    /\ response.status_code = 200
    /\ response.body.kind = "json"
    /\ response.body.json.success = TRUE

\* the provider reported success to the call of slot r
ProviderSucceeded(r) ==
    \/ reply[r].kind = "response" /\ reply[r].status_code = 200
    \/ reply[r].kind = "result" /\ reply[r].reason = "SynthesizingAudioCompleted"

ProviderAudio(r) ==
    IF reply[r].kind = "response" THEN reply[r].content ELSE reply[r].audio_data

\* message contains the words of part, in a row
Contains(message, part) ==
    \E i \in 1..(Len(message) - Len(part) + 1) :
        SubSeq(message, i, i + Len(part) - 1) = part

\* RFC 4648 base64, from the bits: the bytes written as bits, filled with
\* zero bits to a multiple of 6, each 6 bits one character, and "=" up to a
\* multiple of 4 characters
Rfc4648 ==
    << "A","B","C","D","E","F","G","H","I","J","K","L","M","N","O","P",
       "Q","R","S","T","U","V","W","X","Y","Z","a","b","c","d","e","f",
       "g","h","i","j","k","l","m","n","o","p","q","r","s","t","u","v",
       "w","x","y","z","0","1","2","3","4","5","6","7","8","9","+","/" >>

Pow2(k) == IF k = 0 THEN 1 ELSE IF k = 1 THEN 2 ELSE IF k = 2 THEN 4
           ELSE IF k = 3 THEN 8 ELSE IF k = 4 THEN 16 ELSE IF k = 5 THEN 32
           ELSE IF k = 6 THEN 64 ELSE 128

BitOf(B, i) ==
    IF i > 8 * Len(B) THEN 0
    ELSE (B[((i - 1) \div 8) + 1] \div Pow2(7 - ((i - 1) % 8))) % 2

Base64Of(B) ==
    LET nchars == (8 * Len(B) + 5) \div 6
        total == 4 * ((Len(B) + 2) \div 3)
        value(k) == 32 * BitOf(B, 6 * k - 5) + 16 * BitOf(B, 6 * k - 4)
                    + 8 * BitOf(B, 6 * k - 3) + 4 * BitOf(B, 6 * k - 2)
                    + 2 * BitOf(B, 6 * k - 1) + BitOf(B, 6 * k)
    IN [k \in 1..total |-> IF k <= nchars THEN Rfc4648[value(k) + 1] ELSE "="]

\* base64 decoding: four characters give up to three bytes
Index(c) == (CHOOSE i \in 1..64 : Rfc4648[i] = c) - 1

RECURSIVE b64decode(_)
b64decode(text) ==
    IF Len(text) < 4 THEN <<>>
    ELSE LET a == Index(text[1])
             b == Index(text[2])
             rest == SubSeq(text, 5, Len(text))
         IN IF text[3] = "=" THEN << a * 4 + b \div 16 >>
            ELSE LET c == Index(text[3])
                 IN IF text[4] = "="
                    THEN << a * 4 + b \div 16, (b % 16) * 16 + c \div 4 >>
                    ELSE << a * 4 + b \div 16, (b % 16) * 16 + c \div 4,
                            (c % 4) * 64 + Index(text[4]) >> \o b64decode(rest)

(***************************************************************************)
(* C1: when the credential is unset or empty as /synthesize is handled,    *)
(* the request ends at once in an HTTP 500 error and has made no outbound  *)
(* call; a finished request makes no call later either.                    *)
(***************************************************************************)
C1_NoCredentialNoCall ==
    [][\A r \in Requests :
        /\ (Begins(r) /\ IsSynthesize(r) /\ ~CredentialConfigured)
              => /\ pc'[r] = "done"
                 /\ resp'[r].status_code = 500
                 /\ IsErrorEnvelope(resp'[r])
                 /\ outbound'[r] = <<>>
        /\ pc[r] = "done" => Len(outbound'[r]) <= Len(outbound[r])]_vars

\* a /synthesize request refused for its empty credential, with no call made
C1_Witness ==
    \E r \in Requests :
        /\ pc[r] = "done" /\ IsSynthesize(r)
        /\ local[r].speech_key = ""
        /\ resp[r].status_code = 500
        /\ outbound[r] = <<>>

(***************************************************************************)
(* C2: when the provider reports success with audio B, the response is     *)
(* exactly {success: true, audio_base64: base64(B), format: "mp3",         *)
(* sample_rate: 16000, voice: the request's voice or the default}, and     *)
(* decoding audio_base64 gives B back.                                     *)
(***************************************************************************)
C2_SuccessEnvelope ==
    \A r \in Requests :
        (pc[r] = "done" /\ IsSynthesize(r) /\ ProviderSucceeded(r)) =>
            LET B == ProviderAudio(r)
            IN /\ resp[r].status_code = 200
               /\ resp[r].body.kind = "json"
               /\ resp[r].body.json =
                     [ success      |-> TRUE,
                       audio_base64 |-> Base64Of(B),
                       format       |-> "mp3",
                       sample_rate  |-> 16000,
                       voice        |-> IF req[r].json.voice = None
                                        THEN "lt-LT-LeonasNeural"
                                        ELSE req[r].json.voice ]
               /\ b64decode(resp[r].body.json.audio_base64) = B
               /\ (B = <<0, 1>> => resp[r].body.json.audio_base64 = <<"A", "A", "E", "=">>)

\* a success with one byte of audio (two "=" of padding) and the default voice
C2_Witness ==
    \E r \in Requests :
        /\ pc[r] = "done" /\ IsSynthesize(r) /\ ProviderSucceeded(r)
        /\ Len(ProviderAudio(r)) = 1
        /\ req[r].json.voice = None
        /\ resp[r].body.kind = "json"
        /\ resp[r].body.json.voice = "lt-LT-LeonasNeural"

(***************************************************************************)
(* C3: every /synthesize request completes with a success envelope or      *)
(* with an error envelope that carries a message, and with nothing else.   *)
(***************************************************************************)
C3_OnlyTwoResults ==
    \A r \in Requests :
        (pc[r] = "done" /\ IsSynthesize(r)) =>
            (IsSuccessEnvelope(resp[r]) \/ IsErrorEnvelope(resp[r]))

(***************************************************************************)
(* C4: a non-success status of the provider (any status but 200 over REST, *)
(* a canceled synthesis in the SDK) reaches the caller as an HTTP error    *)
(* response that carries the provider's status and message, never as a     *)
(* success.                                                                *)
(***************************************************************************)
ProviderRejected(r) ==
    \/ reply[r].kind = "response" /\ reply[r].status_code # 200
    \/ reply[r].kind = "result" /\ reply[r].reason = "Canceled"

C4_RejectionIsError ==
    \A r \in Requests :
        (pc[r] = "done" /\ IsSynthesize(r) /\ ProviderRejected(r)) =>
            /\ resp[r].status_code >= 400
            /\ IsErrorEnvelope(resp[r])
            /\ IF reply[r].kind = "response"
               THEN /\ resp[r].status_code = reply[r].status_code
                    /\ Contains(resp[r].body.detail, <<ToString(reply[r].status_code)>>)
                    /\ Contains(resp[r].body.detail, reply[r].text)
               ELSE /\ Contains(resp[r].body.detail, <<reply[r].cancellation_details.reason>>)
                    /\ Contains(resp[r].body.detail,
                                reply[r].cancellation_details.error_details)

(***************************************************************************)
(* C5: with the credential unset, /synthesize answers HTTP 500 with a      *)
(* message that contains "not configured".                                 *)
(***************************************************************************)
C5_NotConfiguredMessage ==
    \A r \in Requests :
        (pc[r] = "done" /\ IsSynthesize(r) /\ local[r].speech_key \in {None, ""}) =>
            /\ resp[r].status_code = 500
            /\ IsErrorEnvelope(resp[r])
            /\ Contains(resp[r].body.detail, <<"not", "configured">>)

(***************************************************************************)
(* C6: /health answers status "healthy" with a flag that is true exactly   *)
(* when a non-empty credential is configured at that moment, which is      *)
(* exactly when /synthesize passes its credential check, and it makes no   *)
(* outbound call.                                                          *)
(***************************************************************************)
C6_HealthTruthful ==
    [][\A r \in Requests :
        /\ (Begins(r) /\ req[r].endpoint = "/health")
              => /\ pc'[r] = "done"
                 /\ resp'[r].status_code = 200
                 /\ resp'[r].body.kind = "json"
                 /\ resp'[r].body.json.status = "healthy"
                 /\ resp'[r].body.json.azure_configured = CredentialConfigured
                 /\ outbound' = outbound
        /\ (Begins(r) /\ IsSynthesize(r))
              => (pc'[r] = "calling" <=> CredentialConfigured)]_vars

\* /health answered while the credential was set but empty
C6_Witness ==
    \E r \in Requests :
        /\ pc[r] = "done" /\ req[r].endpoint = "/health"
        /\ local[r].speech_key = ""
        /\ resp[r].body.kind = "json"
        /\ resp[r].body.json.azure_configured = FALSE

(***************************************************************************)
(* C7: /voices answers the same two voices, lt-LT-LeonasNeural (Male,      *)
(* Lithuanian) then lt-LT-OnaNeural (Female, Lithuanian), whatever the     *)
(* credential, the region and the earlier requests, and changes nothing.   *)
(***************************************************************************)
Descriptor(v) == [name |-> v.name, gender |-> v.gender, language |-> v.language]

C7_VoicesFixed ==
    [][\A r \in Requests :
        (Begins(r) /\ req[r].endpoint = "/voices")
            => /\ pc'[r] = "done"
               /\ resp'[r].status_code = 200
               /\ resp'[r].body.kind = "json"
               /\ Len(resp'[r].body.json.voices) = 2
               /\ Descriptor(resp'[r].body.json.voices[1]) =
                     [name |-> "lt-LT-LeonasNeural", gender |-> "Male",
                      language |-> "Lithuanian"]
               /\ Descriptor(resp'[r].body.json.voices[2]) =
                     [name |-> "lt-LT-OnaNeural", gender |-> "Female",
                      language |-> "Lithuanian"]
               /\ UNCHANGED <<environ, req, local, outbound, reply>>
               /\ \A q \in Requests \ {r} : resp'[q] = resp[q] /\ pc'[q] = pc[q]]_vars

\* /voices answered with no credential and a region configured
C7_Witness ==
    \E r \in Requests :
        /\ pc[r] = "done" /\ req[r].endpoint = "/voices"
        /\ resp[r].body.kind = "json"
        /\ Len(resp[r].body.json.voices) = 2
        /\ environ["AZURE_SPEECH_KEY"] = None
        /\ environ["AZURE_SPEECH_REGION"] = "northeurope"

Outcome(r) ==
    IF reply[r].kind = None THEN [kind |-> "none", audio |-> <<>>]
    ELSE IF ProviderSucceeded(r) THEN [kind |-> "success", audio |-> ProviderAudio(r)]
    ELSE IF reply[r].kind = "response" THEN [kind |-> "rejected", audio |-> <<>>]
    ELSE IF reply[r].kind = "RequestException" THEN [kind |-> "unreachable", audio |-> <<>>]
    ELSE IF reply[r].kind = "result" /\ reply[r].reason = "Canceled" THEN
        IF reply[r].cancellation_details.error_code = "ConnectionFailure"
        THEN [kind |-> "unreachable", audio |-> <<>>]
        ELSE [kind |-> "rejected", audio |-> <<>>]
    ELSE [kind |-> "other", audio |-> <<>>]

\* slots r and q hold the same request, handled by two services side by side
SideBySide(r, q) ==
    /\ pc[r] = "done" /\ pc[q] = "done"
    /\ req[r].variant # req[q].variant
    /\ req[r].endpoint = req[q].endpoint
    /\ req[r].json = req[q].json
    /\ local[r] = local[q]
    /\ Outcome(r) = Outcome(q)

Shape(response) ==
    [ class  |-> response.status_code \div 100,
      kind   |-> response.body.kind,
      fields |-> IF response.body.kind = "json" THEN DOMAIN response.body.json ELSE {},
      items  |-> IF response.body.kind = "json" /\ "voices" \in DOMAIN response.body.json
                 THEN {DOMAIN response.body.json.voices[i] :
                          i \in 1..Len(response.body.json.voices)}
                 ELSE {} ]

C9_Equivalent ==
    \A r \in Requests, q \in Requests :
        (SideBySide(r, q) /\ Outcome(r).kind \in {"none", "success", "rejected", "unreachable"})
            => Shape(resp[r]) = Shape(resp[q])

\* C9 as amended: the services agree on /synthesize when the credential is
\* missing, when the provider succeeds and when it is unreachable, on the
\* name, gender and language of /voices, and on the status and the flag of
\* /health
C9_Agreement ==
    \A r \in Requests, q \in Requests :
        SideBySide(r, q) =>
            /\ (IsSynthesize(r) /\ Outcome(r).kind \in {"none", "unreachable"})
                  => /\ resp[r].status_code = 500
                     /\ resp[q].status_code = 500
                     /\ Shape(resp[r]) = Shape(resp[q])
            /\ (IsSynthesize(r) /\ Outcome(r).kind = "success") => resp[r] = resp[q]
            /\ req[r].endpoint = "/voices"
                  => /\ resp[r].status_code = resp[q].status_code
                     /\ Len(resp[r].body.json.voices) = Len(resp[q].body.json.voices)
                     /\ \A i \in 1..Len(resp[r].body.json.voices) :
                           Descriptor(resp[r].body.json.voices[i]) =
                           Descriptor(resp[q].body.json.voices[i])
            /\ req[r].endpoint = "/health"
                  => /\ resp[r].status_code = resp[q].status_code
                     /\ resp[r].body.json.status = resp[q].body.json.status
                     /\ resp[r].body.json.azure_configured =
                           resp[q].body.json.azure_configured

\* the REST service and the standalone service both refused the same request
\* for the missing credential
C9_Witness ==
    \E r \in Requests, q \in Requests :
        /\ SideBySide(r, q) /\ IsSynthesize(r)
        /\ req[r].variant = "rest" /\ req[q].variant = "standalone"
        /\ Outcome(r).kind = "none"
        /\ resp[r].status_code = 500 /\ resp[q].status_code = 500

(***************************************************************************)
(* C10: when the region (AZURE_SPEECH_REGION) is absent, /synthesize fails *)
(* with a configuration error (HTTP 500) and makes no outbound call.       *)
(***************************************************************************)
RegionOf(call) ==
    IF call.api = "requests.post" THEN call.endpoint[2] ELSE call.region

C10_RegionRequired ==
    [][\A r \in Requests :
        (Begins(r) /\ IsSynthesize(r) /\ environ["AZURE_SPEECH_REGION"] = None)
            => /\ pc'[r] = "done"
               /\ resp'[r].status_code = 500
               /\ IsErrorEnvelope(resp'[r])
               /\ outbound'[r] = <<>>]_vars

\* C10 as amended: an absent region is replaced by "westeurope"; with a
\* credential configured the request goes on to its outbound call, made
\* against westeurope, and is not refused
C10_RegionDefaults ==
    [][\A r \in Requests :
        (Begins(r) /\ IsSynthesize(r) /\ environ["AZURE_SPEECH_REGION"] = None
         /\ CredentialConfigured)
            => /\ pc'[r] = "calling"
               /\ Len(outbound'[r]) = 1
               /\ RegionOf(outbound'[r][1]) = "westeurope"
               /\ resp'[r] = resp[r]]_vars

\* a call in flight, made against westeurope while no region is configured
C10_Witness ==
    \E r \in Requests :
        /\ pc[r] = "calling" /\ IsSynthesize(r)
        /\ environ["AZURE_SPEECH_REGION"] = None
        /\ Len(outbound[r]) = 1
        /\ RegionOf(outbound[r][1]) = "westeurope"

====
